---- MODULE Spec2Model ----
(***************************************************************************)
(* Relief Fund Ledger (ReliefStablecoin), SpendingController and           *)
(* CampaignManager as one state machine.  Every external call is one       *)
(* atomic step: it either commits all of its effects or reverts and        *)
(* commits none (EVM transaction semantics).  For every call op there is   *)
(* an operator opErr giving its outcome ("ok" or the name of the error it  *)
(* reverts with, in the order the code checks) and an action op applying   *)
(* it.  The variable `emitted` holds the events committed by the most      *)
(* recent call in behaviours that start with `recording` switched on.      *)
(***************************************************************************)
EXTENDS Integers, Sequences, FiniteSets, TLC

\* ------------------------------------------------------------------ bounds
MaxSupplyUnits == 2
MaxTicks == 2
MaxTx == 3
MaxMerchantList == 2
MaxCampaigns == 2
MaxRaisedUnits == 2
MaxCampaignBeneficiaries == 2

\* ------------------------------------------------------- program constants
Decimals == 6
Unit == 250 * 10^Decimals
defaultDailyLimit == 500 * 10^6
SecondsPerDay == 86400
TickSeconds == SecondsPerDay \div 2

\* --------------------------------------------------------------- addresses
ZERO == "0x0"
owner == "owner"
b1 == "b1"
b2 == "b2"
m1 == "m1"
ctrl == "ctrl"
Callers == {owner, b1, b2, m1}
Accounts == Callers \cup {ctrl}
Addresses == Accounts \cup {ZERO}

ADMIN_ROLE == "ADMIN_ROLE"
MINTER_ROLE == "MINTER_ROLE"
PAUSER_ROLE == "PAUSER_ROLE"
DEFAULT_ADMIN_ROLE == "DEFAULT_ADMIN_ROLE"
MERCHANT_MANAGER_ROLE == "MERCHANT_MANAGER_ROLE"

Amounts == {0, Unit, 2 * Unit}
CampaignIds == {"CAMP"}

FOOD == 0
MEDICAL == 1
SHELTER == 2
UTILITIES == 3
TRANSPORT == 4
Categories == {FOOD, MEDICAL, SHELTER, UTILITIES, TRANSPORT}

DRAFT == 0
ACTIVE == 1
PAUSED == 2
COMPLETED == 3
CANCELLED == 4
CAMPAIGN_MANAGER_ROLE == "CAMPAIGN_MANAGER_ROLE"
CampaignKeys == 1 .. MaxCampaigns
\* campaigns[id] of an id never created: the zero-valued struct.
NoCampaign ==
    [id |-> 0, status |-> DRAFT, raisedAmount |-> 0, distributedAmount |-> 0,
     beneficiaryCount |-> 0]

NOT_ENTERED == "NOT_ENTERED"
ENTERED == "ENTERED"
NoPending == [caller |-> ZERO, merchant |-> ZERO, amount |-> 0]

MaxDay == (MaxTicks * TickSeconds) \div SecondsPerDay
Days == 0 .. MaxDay


VARIABLES
    balances, allowances, whitelistedBeneficiaries, spendingController,
    tokenPaused, tokenRoles, campaignFunds, totalMinted, totalBurned,
    merchants, merchantList, categoryAllowances, categorySpending,
    dailySpendingLimit, dailySpent, transactionCounter, ctrlPaused,
    campaignCounter, campaigns, campaignBeneficiaries, beneficiaryAllocations,
    reentrancyStatus, pending,
    now, emitted, recording

tokenVars == <<balances, allowances, whitelistedBeneficiaries, spendingController,
    tokenPaused, tokenRoles, campaignFunds, totalMinted, totalBurned>>
ctrlVars == <<merchants, merchantList, categoryAllowances, categorySpending,
    dailySpendingLimit, dailySpent, transactionCounter, ctrlPaused>>
campVars == <<campaignCounter, campaigns, campaignBeneficiaries, beneficiaryAllocations>>
\* ReentrancyGuard of the SpendingController: its status word, and the spend
\* that is executing its ledger transfer while the status is ENTERED.
guardVars == <<reentrancyStatus, pending>>
vars == <<tokenVars, ctrlVars, campVars, guardVars, now, emitted, recording>>

\* --------------------------------------------------------------- helpers
RECURSIVE SumOver(_, _)
SumOver(f, S) ==
    IF S = {} THEN 0
    ELSE LET x == CHOOSE y \in S : TRUE IN f[x] + SumOver(f, S \ {x})

totalSupply == SumOver(balances, Accounts)

balanceOf(account) == IF account \in Accounts THEN balances[account] ELSE 0

hasRole(role, account) == <<role, account>> \in tokenRoles

isWhitelisted(account) == account \in Accounts /\ whitelistedBeneficiaries[account]

Ev(name, id) == [name |-> name, id |-> id]

\* The events a call commits replace `emitted` (the event stream's latest
\* segment) when the stream is being recorded.
Emit(events) ==
    /\ emitted' = IF recording THEN events ELSE <<>>
    /\ UNCHANGED recording

\* A reverted call commits nothing: no state change and no event.
Reverted == UNCHANGED <<tokenVars, ctrlVars, campVars, guardVars, now>> /\ Emit(<<>>)

\* ------------------------------------------------------------ ERC20 base
\* A balance movement that credits the receiver and forgets to debit the sender.
superUpdateNoDebit(from, to, value) ==
    IF from = ZERO \/ to # ZERO
    THEN [err |-> "ok", bal |-> [balances EXCEPT ![to] = @ + value]]
    ELSE IF balances[from] < value
    THEN [err |-> "ERC20InsufficientBalance", bal |-> balances]
    ELSE [err |-> "ok", bal |-> [balances EXCEPT ![from] = @ - value]]

\* ERC20._update of the base contract: the balance movement itself.
superUpdate(from, to, value) ==
    IF from = ZERO
    THEN [err |-> "ok", bal |-> [balances EXCEPT ![to] = @ + value]]
    ELSE IF balances[from] < value
    THEN [err |-> "ERC20InsufficientBalance", bal |-> balances]
    ELSE IF to = ZERO
    THEN [err |-> "ok", bal |-> [balances EXCEPT ![from] = @ - value]]
    ELSE [err |-> "ok",
          bal |-> [a \in Accounts |->
                     IF a = from /\ a = to THEN balances[a]
                     ELSE IF a = from THEN balances[a] - value
                     ELSE IF a = to THEN balances[a] + value
                     ELSE balances[a]]]

\* A policy that also lets any account pay a whitelisted one.
_updateToWhitelisted(from, to, value) ==
    IF tokenPaused THEN [err |-> "EnforcedPause", bal |-> balances]
    ELSE IF from = ZERO \/ to = ZERO THEN superUpdate(from, to, value)
    ELSE IF hasRole(ADMIN_ROLE, from) \/ hasRole(MINTER_ROLE, from)
    THEN superUpdate(from, to, value)
    ELSE IF to = spendingController \/ from = spendingController
    THEN superUpdate(from, to, value)
    ELSE IF isWhitelisted(to) THEN superUpdate(from, to, value)
    ELSE [err |-> "TransferNotAllowed", bal |-> balances]

\* A policy without the whenNotPaused modifier.
_updateIgnoringPause(from, to, value) ==
    IF from = ZERO \/ to = ZERO THEN superUpdate(from, to, value)
    ELSE IF hasRole(ADMIN_ROLE, from) \/ hasRole(MINTER_ROLE, from)
    THEN superUpdate(from, to, value)
    ELSE IF to = spendingController \/ from = spendingController
    THEN superUpdate(from, to, value)
    ELSE [err |-> "TransferNotAllowed", bal |-> balances]

\* ReliefStablecoin._update: the transfer-restriction policy.
_update(from, to, value) ==
    IF tokenPaused THEN [err |-> "EnforcedPause", bal |-> balances]
    ELSE IF from = ZERO THEN superUpdate(from, to, value)
    ELSE IF to = ZERO THEN superUpdate(from, to, value)
    ELSE IF hasRole(ADMIN_ROLE, from) \/ hasRole(MINTER_ROLE, from)
    THEN superUpdate(from, to, value)
    ELSE IF to = spendingController THEN superUpdate(from, to, value)
    ELSE IF from = spendingController THEN superUpdate(from, to, value)
    ELSE [err |-> "TransferNotAllowed", bal |-> balances]

\* ERC20._transfer
_transfer(from, to, value) ==
    IF from = ZERO THEN [err |-> "ERC20InvalidSender", bal |-> balances]
    ELSE IF to = ZERO THEN [err |-> "ERC20InvalidReceiver", bal |-> balances]
    ELSE _update(from, to, value)

\* ERC20.transferFrom as executed for `spender`: _spendAllowance, then _transfer.
transferFromResult(spender, from, to, value) ==
    IF allowances[from][spender] < value
    THEN [err |-> "ERC20InsufficientAllowance", bal |-> balances]
    ELSE _transfer(from, to, value)

\* ------------------------------------------------------------------ Init
\* The state the three constructors leave.
Deployed ==
    /\ balances = [a \in Accounts |-> 0]
    /\ allowances = [a \in Accounts |-> [s \in Accounts |-> 0]]
    /\ whitelistedBeneficiaries = [a \in Accounts |-> a = owner]
    /\ spendingController = ZERO
    /\ tokenPaused = FALSE
    /\ tokenRoles = {<<DEFAULT_ADMIN_ROLE, owner>>, <<ADMIN_ROLE, owner>>,
                     <<MINTER_ROLE, owner>>, <<PAUSER_ROLE, owner>>}
    /\ campaignFunds = [c \in CampaignIds |-> 0]
    /\ totalMinted = 0
    /\ totalBurned = 0
    /\ merchants = [a \in Accounts |->
                      [category |-> FOOD, isActive |-> FALSE, totalReceived |-> 0]]
    /\ merchantList = <<>>
    /\ categoryAllowances = [a \in Accounts |-> [c \in Categories |-> 0]]
    /\ categorySpending = [a \in Accounts |-> [c \in Categories |-> 0]]
    /\ dailySpendingLimit = [a \in Accounts |-> 0]
    /\ dailySpent = [a \in Accounts |-> [d \in Days |-> 0]]
    /\ transactionCounter = 0
    /\ ctrlPaused = FALSE
    /\ campaignCounter = 0
    /\ campaigns = [k \in CampaignKeys |-> NoCampaign]
    /\ campaignBeneficiaries = [k \in CampaignKeys |-> <<>>]
    /\ beneficiaryAllocations = [k \in CampaignKeys |-> [a \in Accounts |-> 0]]
    /\ reentrancyStatus = NOT_ENTERED
    /\ pending = NoPending
    /\ now = 0
    /\ emitted = <<>>

Init == Deployed /\ recording = FALSE

\* The same deployment with the event stream recorded.
InitAudit == Deployed /\ recording = TRUE

\* ------------------------------------------------------- ledger operations
setSpendingControllerErr(caller, controller) ==
    IF ~hasRole(ADMIN_ROLE, caller) THEN "AccessControlUnauthorizedAccount"
    ELSE IF controller = ZERO THEN "InvalidAddress"
    ELSE "ok"

setSpendingController(caller, controller) ==
    IF setSpendingControllerErr(caller, controller) = "ok"
    THEN /\ spendingController' = controller
         /\ whitelistedBeneficiaries' =
              [whitelistedBeneficiaries EXCEPT ![controller] = TRUE]
         /\ Emit(<<Ev("SpendingControllerUpdated", 0)>>)
         /\ UNCHANGED <<balances, allowances, tokenPaused, tokenRoles, campaignFunds,
                        totalMinted, totalBurned, ctrlVars, campVars, guardVars, now>>
    ELSE Reverted

whitelistBeneficiaryErr(caller, beneficiary) ==
    IF ~hasRole(ADMIN_ROLE, caller) THEN "AccessControlUnauthorizedAccount"
    ELSE IF beneficiary = ZERO THEN "InvalidAddress"
    ELSE IF whitelistedBeneficiaries[beneficiary] THEN "BeneficiaryAlreadyExists"
    ELSE "ok"

whitelistBeneficiary(caller, beneficiary) ==
    IF whitelistBeneficiaryErr(caller, beneficiary) = "ok"
    THEN /\ whitelistedBeneficiaries' =
              [whitelistedBeneficiaries EXCEPT ![beneficiary] = TRUE]
         /\ Emit(<<Ev("BeneficiaryWhitelisted", 0)>>)
         /\ UNCHANGED <<balances, allowances, spendingController, tokenPaused,
                        tokenRoles, campaignFunds, totalMinted, totalBurned,
                        ctrlVars, campVars, guardVars, now>>
    ELSE Reverted

removeBeneficiaryErr(caller, beneficiary) ==
    IF ~hasRole(ADMIN_ROLE, caller) THEN "AccessControlUnauthorizedAccount"
    ELSE IF ~isWhitelisted(beneficiary) THEN "NotWhitelisted"
    ELSE "ok"

removeBeneficiary(caller, beneficiary) ==
    IF removeBeneficiaryErr(caller, beneficiary) = "ok"
    THEN /\ whitelistedBeneficiaries' =
              [whitelistedBeneficiaries EXCEPT ![beneficiary] = FALSE]
         /\ Emit(<<Ev("BeneficiaryRemoved", 0)>>)
         /\ UNCHANGED <<balances, allowances, spendingController, tokenPaused,
                        tokenRoles, campaignFunds, totalMinted, totalBurned,
                        ctrlVars, campVars, guardVars, now>>
    ELSE Reverted

\* AccessControl.grantRole on the ledger: the role's admin is DEFAULT_ADMIN_ROLE.
grantRoleErr(caller, role, account) ==
    IF ~hasRole(DEFAULT_ADMIN_ROLE, caller) THEN "AccessControlUnauthorizedAccount"
    ELSE "ok"

grantRole(caller, role, account) ==
    IF grantRoleErr(caller, role, account) = "ok"
    THEN /\ tokenRoles' = tokenRoles \cup {<<role, account>>}
         /\ Emit(IF hasRole(role, account) THEN <<>>
                 ELSE <<Ev("RoleGranted", 0)>>)
         /\ UNCHANGED <<balances, allowances, whitelistedBeneficiaries,
                        spendingController, tokenPaused, campaignFunds, totalMinted,
                        totalBurned, ctrlVars, campVars, guardVars, now>>
    ELSE Reverted

mintForCampaignErr(caller, to, amount) ==
    IF ~hasRole(MINTER_ROLE, caller) THEN "AccessControlUnauthorizedAccount"
    ELSE IF tokenPaused THEN "EnforcedPause"
    ELSE IF to = ZERO THEN "InvalidAddress"
    ELSE IF ~whitelistedBeneficiaries[to] /\ ~hasRole(ADMIN_ROLE, to)
    THEN "NotWhitelisted"
    ELSE _update(ZERO, to, amount).err

mintForCampaign(caller, to, amount, campaignId) ==
    /\ totalMinted + amount <= MaxSupplyUnits * Unit
    /\ IF mintForCampaignErr(caller, to, amount) = "ok"
       THEN /\ balances' = _update(ZERO, to, amount).bal
            /\ campaignFunds' = [campaignFunds EXCEPT ![campaignId] = @ + amount]
            /\ totalMinted' = totalMinted + amount
            /\ Emit(<<Ev("Transfer", 0), Ev("FundsMinted", 0)>>)
            /\ UNCHANGED <<allowances, whitelistedBeneficiaries, spendingController,
                           tokenPaused, tokenRoles, totalBurned, ctrlVars, campVars, guardVars, now>>
       ELSE Reverted

\* distributeFunds without the whitelist check.
distributeFundsErrNoGate(caller, to, amount) ==
    IF ~hasRole(MINTER_ROLE, caller) THEN "AccessControlUnauthorizedAccount"
    ELSE IF tokenPaused THEN "EnforcedPause"
    ELSE _transfer(caller, to, amount).err

distributeFundsErr(caller, to, amount) ==
    IF ~hasRole(MINTER_ROLE, caller) THEN "AccessControlUnauthorizedAccount"
    ELSE IF tokenPaused THEN "EnforcedPause"
    ELSE IF ~isWhitelisted(to) THEN "NotWhitelisted"
    ELSE _transfer(caller, to, amount).err

distributeFunds(caller, to, amount, campaignId) ==
    IF distributeFundsErr(caller, to, amount) = "ok"
    THEN /\ balances' = _transfer(caller, to, amount).bal
         /\ Emit(<<Ev("Transfer", 0), Ev("FundsDistributed", 0)>>)
         /\ UNCHANGED <<allowances, whitelistedBeneficiaries, spendingController,
                        tokenPaused, tokenRoles, campaignFunds, totalMinted,
                        totalBurned, ctrlVars, campVars, guardVars, now>>
    ELSE Reverted

\* ERC20.transfer
transferErr(caller, to, value) == _transfer(caller, to, value).err

transfer(caller, to, value) ==
    IF transferErr(caller, to, value) = "ok"
    THEN /\ balances' = _transfer(caller, to, value).bal
         /\ Emit(<<Ev("Transfer", 0)>>)
         /\ UNCHANGED <<allowances, whitelistedBeneficiaries, spendingController,
                        tokenPaused, tokenRoles, campaignFunds, totalMinted,
                        totalBurned, ctrlVars, campVars, guardVars, now>>
    ELSE Reverted

\* ERC20.transferFrom called directly by an account
transferFromErr(caller, from, to, value) ==
    transferFromResult(caller, from, to, value).err

transferFrom(caller, from, to, value) ==
    IF transferFromErr(caller, from, to, value) = "ok"
    THEN /\ balances' = transferFromResult(caller, from, to, value).bal
         /\ allowances' = [allowances EXCEPT ![from][caller] = @ - value]
         /\ Emit(<<Ev("Transfer", 0)>>)
         /\ UNCHANGED <<whitelistedBeneficiaries, spendingController,
                        tokenPaused, tokenRoles, campaignFunds, totalMinted,
                        totalBurned, ctrlVars, campVars, guardVars, now>>
    ELSE Reverted

\* ERC20.approve
approveErr(caller, spender, value) ==
    IF spender = ZERO THEN "ERC20InvalidSpender" ELSE "ok"

approve(caller, spender, value) ==
    IF approveErr(caller, spender, value) = "ok"
    THEN /\ allowances' = [allowances EXCEPT ![caller][spender] = value]
         /\ Emit(<<Ev("Approval", 0)>>)
         /\ UNCHANGED <<balances, whitelistedBeneficiaries, spendingController,
                        tokenPaused, tokenRoles, campaignFunds, totalMinted,
                        totalBurned, ctrlVars, campVars, guardVars, now>>
    ELSE Reverted

\* ERC20Burnable.burn
burnErr(caller, value) == _update(caller, ZERO, value).err

burn(caller, value) ==
    IF burnErr(caller, value) = "ok"
    THEN /\ balances' = _update(caller, ZERO, value).bal
         /\ totalBurned' = totalBurned + value
         /\ Emit(<<Ev("Transfer", 0)>>)
         /\ UNCHANGED <<allowances, whitelistedBeneficiaries, spendingController,
                        tokenPaused, tokenRoles, campaignFunds, totalMinted,
                        ctrlVars, campVars, guardVars, now>>
    ELSE Reverted

pauseErr(caller) ==
    IF ~hasRole(PAUSER_ROLE, caller) THEN "AccessControlUnauthorizedAccount"
    ELSE IF tokenPaused THEN "EnforcedPause"
    ELSE "ok"

pause(caller) ==
    IF pauseErr(caller) = "ok"
    THEN /\ tokenPaused' = TRUE
         /\ Emit(<<Ev("Paused", 0)>>)
         /\ UNCHANGED <<balances, allowances, whitelistedBeneficiaries,
                        spendingController, tokenRoles, campaignFunds, totalMinted,
                        totalBurned, ctrlVars, campVars, guardVars, now>>
    ELSE Reverted

unpauseErr(caller) ==
    IF ~hasRole(PAUSER_ROLE, caller) THEN "AccessControlUnauthorizedAccount"
    ELSE IF ~tokenPaused THEN "ExpectedPause"
    ELSE "ok"

unpause(caller) ==
    IF unpauseErr(caller) = "ok"
    THEN /\ tokenPaused' = FALSE
         /\ Emit(<<Ev("Unpaused", 0)>>)
         /\ UNCHANGED <<balances, allowances, whitelistedBeneficiaries,
                        spendingController, tokenRoles, campaignFunds, totalMinted,
                        totalBurned, ctrlVars, campVars, guardVars, now>>
    ELSE Reverted

\* ------------------------------------------- SpendingController operations
\* Roles of the SpendingController: granted to its deployer by the constructor.
ctrlHasRole(role, account) ==
    account = owner /\ role \in {DEFAULT_ADMIN_ROLE, ADMIN_ROLE, MERCHANT_MANAGER_ROLE}

\* A day bucket that never advances.
todayFrozen == now - now

today == now \div SecondsPerDay

\* A counter that hands out its current value again.
nextTransactionIdReused == transactionCounter

\* ++transactionCounter
nextTransactionId == transactionCounter + 1

registerMerchantErr(caller, merchant) ==
    IF ~ctrlHasRole(MERCHANT_MANAGER_ROLE, caller) THEN "AccessControlUnauthorizedAccount"
    ELSE IF merchant = ZERO THEN "InvalidAddress"
    ELSE IF merchants[merchant].isActive THEN "MerchantAlreadyExists"
    ELSE "ok"

registerMerchant(caller, merchant, category) ==
    /\ Len(merchantList) < MaxMerchantList
    /\ transactionCounter < MaxTx
    /\ IF registerMerchantErr(caller, merchant) = "ok"
       THEN /\ merchants' = [merchants EXCEPT ![merchant] =
                   [category |-> category, isActive |-> TRUE, totalReceived |-> 0]]
            /\ merchantList' = Append(merchantList, merchant)
            /\ transactionCounter' = nextTransactionId
            /\ Emit(<<Ev("MerchantRegistered", 0),
                            Ev("AuditLog", nextTransactionId)>>)
            /\ UNCHANGED <<tokenVars, campVars, guardVars, categoryAllowances, categorySpending,
                           dailySpendingLimit, dailySpent, ctrlPaused, now>>
       ELSE Reverted

deactivateMerchantErr(caller, merchant) ==
    IF ~ctrlHasRole(MERCHANT_MANAGER_ROLE, caller) THEN "AccessControlUnauthorizedAccount"
    ELSE IF merchant = ZERO \/ ~merchants[merchant].isActive THEN "MerchantNotActive"
    ELSE "ok"

deactivateMerchant(caller, merchant) ==
    IF deactivateMerchantErr(caller, merchant) = "ok"
    THEN /\ merchants' = [merchants EXCEPT ![merchant].isActive = FALSE]
         /\ Emit(<<Ev("MerchantDeactivated", 0)>>)
         /\ UNCHANGED <<tokenVars, campVars, guardVars, merchantList, categoryAllowances, categorySpending,
                        dailySpendingLimit, dailySpent, transactionCounter,
                        ctrlPaused, now>>
    ELSE Reverted

setAllowanceErr(caller, beneficiary) ==
    IF ~ctrlHasRole(ADMIN_ROLE, caller) THEN "AccessControlUnauthorizedAccount"
    ELSE IF beneficiary = ZERO THEN "InvalidAddress"
    ELSE "ok"

setAllowance(caller, beneficiary, category, amount) ==
    IF setAllowanceErr(caller, beneficiary) = "ok"
    THEN /\ categoryAllowances' =
              [categoryAllowances EXCEPT ![beneficiary][category] = amount]
         /\ Emit(<<Ev("AllowancesSet", 0)>>)
         /\ UNCHANGED <<tokenVars, campVars, guardVars, merchants, merchantList, categorySpending,
                        dailySpendingLimit, dailySpent, transactionCounter,
                        ctrlPaused, now>>
    ELSE Reverted

setAllAllowances(caller, beneficiary, foodAllowance, medicalAllowance, shelterAllowance, utilitiesAllowance, transportAllowance) ==
    IF setAllowanceErr(caller, beneficiary) = "ok"
    THEN /\ categoryAllowances' =
              [categoryAllowances EXCEPT ![beneficiary] =
                 [c \in Categories |->
                    IF c = FOOD THEN foodAllowance
                    ELSE IF c = MEDICAL THEN medicalAllowance
                    ELSE IF c = SHELTER THEN shelterAllowance
                    ELSE IF c = UTILITIES THEN utilitiesAllowance
                    ELSE transportAllowance]]
         /\ Emit([i \in 1 .. 5 |-> Ev("AllowancesSet", 0)])
         /\ UNCHANGED <<tokenVars, campVars, guardVars, merchants, merchantList, categorySpending,
                        dailySpendingLimit, dailySpent, transactionCounter,
                        ctrlPaused, now>>
    ELSE Reverted

\* setDailyLimit without the onlyRole modifier.
setDailyLimitErrOpen(caller) == "ok"

setDailyLimitErr(caller) ==
    IF ~ctrlHasRole(ADMIN_ROLE, caller) THEN "AccessControlUnauthorizedAccount"
    ELSE "ok"

setDailyLimit(caller, beneficiary, limit) ==
    IF setDailyLimitErr(caller) = "ok"
    THEN /\ dailySpendingLimit' = [dailySpendingLimit EXCEPT ![beneficiary] = limit]
         /\ Emit(<<>>)
         /\ UNCHANGED <<tokenVars, campVars, guardVars, merchants, merchantList, categoryAllowances,
                        categorySpending, dailySpent, transactionCounter,
                        ctrlPaused, now>>
    ELSE Reverted

\* The allowance itself, with nothing spent taken off.
getRemainingAllowanceGross(beneficiary, category) ==
    categoryAllowances[beneficiary][category]

getRemainingAllowance(beneficiary, category) ==
    LET allowance == categoryAllowances[beneficiary][category]
        spent == categorySpending[beneficiary][category]
    IN IF allowance > spent THEN allowance - spent ELSE 0

\* A daily budget that takes a stored limit of 0 to mean no budget at all.
dailyRemainingZeroIsZero(beneficiary) ==
    LET limit == dailySpendingLimit[beneficiary]
        todaySpent == dailySpent[beneficiary][today]
    IN IF limit > todaySpent THEN limit - todaySpent ELSE 0

\* The daily budget left today, as spend and getBeneficiaryStatus compute it.
dailyRemaining(beneficiary) ==
    LET limit == IF dailySpendingLimit[beneficiary] = 0 THEN defaultDailyLimit
                 ELSE dailySpendingLimit[beneficiary]
        todaySpent == dailySpent[beneficiary][today]
    IN IF limit > todaySpent THEN limit - todaySpent ELSE 0

\* spend with the daily check placed before the category check.
spendErrDailyFirst(caller, merchant, amount) ==
    IF reentrancyStatus = ENTERED THEN "ReentrancyGuardReentrantCall"
    ELSE IF ctrlPaused THEN "EnforcedPause"
    ELSE IF amount = 0 THEN "InvalidAmount"
    ELSE IF ~merchants[merchant].isActive THEN "MerchantNotActive"
    ELSE IF amount > dailyRemaining(caller) THEN "DailyLimitExceeded"
    ELSE IF amount > getRemainingAllowance(caller, merchants[merchant].category)
    THEN "InsufficientAllowance"
    ELSE IF amount > balanceOf(caller) THEN "InsufficientBalance"
    ELSE transferFromResult(ctrl, caller, merchant, amount).err

\* spend without the nonReentrant modifier.
spendErrNoGuard(caller, merchant, amount) ==
    IF ctrlPaused THEN "EnforcedPause"
    ELSE IF amount = 0 THEN "InvalidAmount"
    ELSE IF ~merchants[merchant].isActive THEN "MerchantNotActive"
    ELSE IF amount > getRemainingAllowance(caller, merchants[merchant].category)
    THEN "InsufficientAllowance"
    ELSE IF amount > dailyRemaining(caller) THEN "DailyLimitExceeded"
    ELSE IF amount > balanceOf(caller) THEN "InsufficientBalance"
    ELSE transferFromResult(ctrl, caller, merchant, amount).err

\* spend without the whenNotPaused modifier.
spendErrIgnoringPause(caller, merchant, amount) ==
    IF reentrancyStatus = ENTERED THEN "ReentrancyGuardReentrantCall"
    ELSE IF amount = 0 THEN "InvalidAmount"
    ELSE IF ~merchants[merchant].isActive THEN "MerchantNotActive"
    ELSE IF amount > getRemainingAllowance(caller, merchants[merchant].category)
    THEN "InsufficientAllowance"
    ELSE IF amount > dailyRemaining(caller) THEN "DailyLimitExceeded"
    ELSE IF amount > balanceOf(caller) THEN "InsufficientBalance"
    ELSE transferFromResult(ctrl, caller, merchant, amount).err

\* spend without the merchant check.
spendErrAnyMerchant(caller, merchant, amount) ==
    IF reentrancyStatus = ENTERED THEN "ReentrancyGuardReentrantCall"
    ELSE IF ctrlPaused THEN "EnforcedPause"
    ELSE IF amount = 0 THEN "InvalidAmount"
    ELSE IF amount > getRemainingAllowance(caller, merchants[merchant].category)
    THEN "InsufficientAllowance"
    ELSE IF amount > dailyRemaining(caller) THEN "DailyLimitExceeded"
    ELSE IF amount > balanceOf(caller) THEN "InsufficientBalance"
    ELSE transferFromResult(ctrl, caller, merchant, amount).err

\* The outcome of spend(merchant, amount, externalRef) called by `caller`:
\* "ok", or the error the call reverts with.
spendErr(caller, merchant, amount) ==
    IF reentrancyStatus = ENTERED THEN "ReentrancyGuardReentrantCall"
    ELSE IF ctrlPaused THEN "EnforcedPause"
    ELSE IF amount = 0 THEN "InvalidAmount"
    ELSE IF ~merchants[merchant].isActive THEN "MerchantNotActive"
    ELSE IF amount > getRemainingAllowance(caller, merchants[merchant].category)
    THEN "InsufficientAllowance"
    ELSE IF amount > dailyRemaining(caller) THEN "DailyLimitExceeded"
    ELSE IF amount > balanceOf(caller) THEN "InsufficientBalance"
    ELSE transferFromResult(ctrl, caller, merchant, amount).err

\* A spend that forgets the daily bucket.
dailySpentUnbooked(caller, amount) == dailySpent

\* dailySpent after the spend is booked on today's bucket.
dailySpentAfter(caller, amount) ==
    [dailySpent EXCEPT ![caller][today] = @ + amount]

\* What spend commits once every check has passed: the ledger transfer, the
\* counters, the transaction id and the events.
spendApply(caller, merchant, amount) ==
    LET category == merchants[merchant].category
        txId == nextTransactionId
    IN /\ balances' = transferFromResult(ctrl, caller, merchant, amount).bal
       /\ allowances' = [allowances EXCEPT ![caller][ctrl] = @ - amount]
       /\ categorySpending' =
            [categorySpending EXCEPT ![caller][category] = @ + amount]
       /\ dailySpent' = dailySpentAfter(caller, amount)
       /\ merchants' = [merchants EXCEPT ![merchant].totalReceived = @ + amount]
       /\ transactionCounter' = txId
       /\ Emit(<<Ev("Transfer", 0), Ev("SpendingExecuted", txId),
                       Ev("AuditLog", txId)>>)
       /\ UNCHANGED <<whitelistedBeneficiaries, spendingController,
                      tokenPaused, tokenRoles, campaignFunds, totalMinted,
                      totalBurned, merchantList, categoryAllowances,
                      dailySpendingLimit, ctrlPaused, campVars, now>>

spend(caller, merchant, amount) ==
    /\ transactionCounter < MaxTx
    /\ IF spendErr(caller, merchant, amount) = "ok"
       THEN spendApply(caller, merchant, amount) /\ UNCHANGED guardVars
       ELSE Reverted

\* spend seen at the grain of the guard.  spendEnter: the call has taken the
\* lock, passed its checks and handed control to the ledger's transferFrom.
spendEnter(caller, merchant, amount) ==
    /\ transactionCounter < MaxTx
    /\ spendErr(caller, merchant, amount) = "ok"
    /\ reentrancyStatus' = ENTERED
    /\ pending' = [caller |-> caller, merchant |-> merchant, amount |-> amount]
    /\ UNCHANGED <<tokenVars, ctrlVars, campVars, now, emitted, recording>>

\* spendComplete: the transfer returns, the counters are written, the events
\* are emitted and the lock is released; if the transfer fails the whole call
\* reverts, which releases the lock too.
spendComplete ==
    /\ reentrancyStatus = ENTERED
    /\ reentrancyStatus' = NOT_ENTERED
    /\ pending' = NoPending
    /\ IF transferFromResult(ctrl, pending.caller, pending.merchant, pending.amount).err = "ok"
       THEN spendApply(pending.caller, pending.merchant, pending.amount)
       ELSE UNCHANGED <<tokenVars, ctrlVars, campVars, now>> /\ Emit(<<>>)

ctrlPauseErr(caller) ==
    IF ~ctrlHasRole(ADMIN_ROLE, caller) THEN "AccessControlUnauthorizedAccount"
    ELSE IF ctrlPaused THEN "EnforcedPause"
    ELSE "ok"

ctrlPause(caller) ==
    IF ctrlPauseErr(caller) = "ok"
    THEN /\ ctrlPaused' = TRUE
         /\ Emit(<<Ev("Paused", 0)>>)
         /\ UNCHANGED <<tokenVars, campVars, guardVars, merchants, merchantList, categoryAllowances,
                        categorySpending, dailySpendingLimit, dailySpent,
                        transactionCounter, now>>
    ELSE Reverted

ctrlUnpauseErr(caller) ==
    IF ~ctrlHasRole(ADMIN_ROLE, caller) THEN "AccessControlUnauthorizedAccount"
    ELSE IF ~ctrlPaused THEN "ExpectedPause"
    ELSE "ok"

ctrlUnpause(caller) ==
    IF ctrlUnpauseErr(caller) = "ok"
    THEN /\ ctrlPaused' = FALSE
         /\ Emit(<<Ev("Unpaused", 0)>>)
         /\ UNCHANGED <<tokenVars, campVars, guardVars, merchants, merchantList, categoryAllowances,
                        categorySpending, dailySpendingLimit, dailySpent,
                        transactionCounter, now>>
    ELSE Reverted

\* block.timestamp advances between calls.
Tick ==
    /\ now + TickSeconds <= MaxTicks * TickSeconds
    /\ now' = now + TickSeconds
    /\ UNCHANGED <<tokenVars, ctrlVars, campVars, guardVars, emitted, recording>>

\* --------------------------------------------- CampaignManager operations
\* Roles of the CampaignManager: granted to its deployer by the constructor.
campHasRole(role, account) ==
    account = owner /\ role \in {DEFAULT_ADMIN_ROLE, ADMIN_ROLE, CAMPAIGN_MANAGER_ROLE}

\* campaigns[campaignId], the zero-valued struct for an id outside the table.
getCampaign(campaignId) ==
    IF campaignId \in CampaignKeys THEN campaigns[campaignId] ELSE NoCampaign

\* createCampaign without the date check.
createCampaignErrNoDates(caller, startDate, endDate) ==
    IF ~campHasRole(CAMPAIGN_MANAGER_ROLE, caller) THEN "AccessControlUnauthorizedAccount"
    ELSE "ok"

createCampaignErr(caller, startDate, endDate) ==
    IF ~campHasRole(CAMPAIGN_MANAGER_ROLE, caller) THEN "AccessControlUnauthorizedAccount"
    ELSE IF endDate <= startDate THEN "InvalidCampaignDates"
    ELSE "ok"

createCampaign(caller, startDate, endDate) ==
    /\ campaignCounter < MaxCampaigns
    /\ IF createCampaignErr(caller, startDate, endDate) = "ok"
       THEN LET campaignId == campaignCounter + 1
            IN /\ campaignCounter' = campaignId
               /\ campaigns' = [campaigns EXCEPT ![campaignId] =
                      [id |-> campaignId, status |-> DRAFT, raisedAmount |-> 0,
                       distributedAmount |-> 0, beneficiaryCount |-> 0]]
               /\ Emit(<<Ev("CampaignCreated", campaignId)>>)
               /\ UNCHANGED <<tokenVars, ctrlVars, guardVars, campaignBeneficiaries,
                              beneficiaryAllocations, now>>
       ELSE Reverted

\* activateCampaign, pauseCampaign and completeCampaign differ in the status
\* they write only.
setStatusErr(caller, campaignId) ==
    IF ~campHasRole(CAMPAIGN_MANAGER_ROLE, caller) THEN "AccessControlUnauthorizedAccount"
    ELSE IF getCampaign(campaignId).id = 0 THEN "CampaignNotFound"
    ELSE "ok"

setStatus(caller, campaignId, newStatus) ==
    IF setStatusErr(caller, campaignId) = "ok"
    THEN /\ campaigns' = [campaigns EXCEPT ![campaignId].status = newStatus]
         /\ Emit(<<Ev("CampaignStatusUpdated", campaignId)>>)
         /\ UNCHANGED <<tokenVars, ctrlVars, guardVars, campaignCounter, campaignBeneficiaries,
                        beneficiaryAllocations, now>>
    ELSE Reverted

activateCampaign(caller, campaignId) == setStatus(caller, campaignId, ACTIVE)

pauseCampaign(caller, campaignId) == setStatus(caller, campaignId, PAUSED)

completeCampaign(caller, campaignId) == setStatus(caller, campaignId, COMPLETED)

recordFundsRaisedErr(caller, campaignId) ==
    IF ~campHasRole(ADMIN_ROLE, caller) THEN "AccessControlUnauthorizedAccount"
    ELSE IF getCampaign(campaignId).id = 0 THEN "CampaignNotFound"
    ELSE "ok"

recordFundsRaised(caller, campaignId, amount) ==
    /\ getCampaign(campaignId).raisedAmount + amount <= MaxRaisedUnits * Unit
    /\ IF recordFundsRaisedErr(caller, campaignId) = "ok"
       THEN /\ campaigns' = [campaigns EXCEPT ![campaignId].raisedAmount = @ + amount]
            /\ Emit(<<Ev("FundsRaised", campaignId)>>)
            /\ UNCHANGED <<tokenVars, ctrlVars, guardVars, campaignCounter,
                           campaignBeneficiaries, beneficiaryAllocations, now>>
       ELSE Reverted

addBeneficiaryToCampaignErr(caller, campaignId, beneficiary) ==
    IF ~campHasRole(CAMPAIGN_MANAGER_ROLE, caller) THEN "AccessControlUnauthorizedAccount"
    ELSE IF getCampaign(campaignId).id = 0 THEN "CampaignNotFound"
    ELSE IF beneficiaryAllocations[campaignId][beneficiary] > 0
    THEN "BeneficiaryAlreadyInCampaign"
    ELSE "ok"

addBeneficiaryToCampaign(caller, campaignId, beneficiary, allocation) ==
    /\ campaignId \in CampaignKeys =>
          Len(campaignBeneficiaries[campaignId]) < MaxCampaignBeneficiaries
    /\ IF addBeneficiaryToCampaignErr(caller, campaignId, beneficiary) = "ok"
       THEN /\ campaignBeneficiaries' = [campaignBeneficiaries EXCEPT
                   ![campaignId] = Append(@, beneficiary)]
            /\ beneficiaryAllocations' = [beneficiaryAllocations EXCEPT
                   ![campaignId][beneficiary] = allocation]
            /\ campaigns' = [campaigns EXCEPT ![campaignId].beneficiaryCount = @ + 1]
            /\ Emit(<<Ev("BeneficiaryAddedToCampaign", campaignId)>>)
            /\ UNCHANGED <<tokenVars, ctrlVars, guardVars, campaignCounter, now>>
       ELSE Reverted

\* distributeTobeneficiary without the available-funds check.
distributeTobeneficiaryErrNoFunds(caller, campaignId, amount) ==
    IF ~campHasRole(ADMIN_ROLE, caller) THEN "AccessControlUnauthorizedAccount"
    ELSE IF getCampaign(campaignId).id = 0 THEN "CampaignNotFound"
    ELSE IF getCampaign(campaignId).status # ACTIVE THEN "CampaignNotActive"
    ELSE "ok"

distributeTobeneficiaryErr(caller, campaignId, amount) ==
    IF ~campHasRole(ADMIN_ROLE, caller) THEN "AccessControlUnauthorizedAccount"
    ELSE IF getCampaign(campaignId).id = 0 THEN "CampaignNotFound"
    ELSE IF getCampaign(campaignId).status # ACTIVE THEN "CampaignNotActive"
    ELSE IF getCampaign(campaignId).raisedAmount
               < getCampaign(campaignId).distributedAmount
    THEN "Panic(0x11)"
    ELSE IF amount > getCampaign(campaignId).raisedAmount
                       - getCampaign(campaignId).distributedAmount
    THEN "InsufficientFunds"
    ELSE "ok"

distributeTobeneficiary(caller, campaignId, beneficiary, amount) ==
    IF distributeTobeneficiaryErr(caller, campaignId, amount) = "ok"
    THEN /\ campaigns' = [campaigns EXCEPT ![campaignId].distributedAmount = @ + amount]
         /\ Emit(<<Ev("FundsDistributedToBeneficiary", campaignId)>>)
         /\ UNCHANGED <<tokenVars, ctrlVars, guardVars, campaignCounter, campaignBeneficiaries,
                        beneficiaryAllocations, now>>
    ELSE Reverted

\* getCampaignStats(campaignId).remainingFunds; the subtraction is checked.
remainingFunds(campaignId) ==
    IF getCampaign(campaignId).raisedAmount < getCampaign(campaignId).distributedAmount
    THEN "Panic(0x11)"
    ELSE getCampaign(campaignId).raisedAmount - getCampaign(campaignId).distributedAmount

\* ---------------------------------------------------------- specifications
\* Ledger alone: every ReliefStablecoin operation, called by the deployer, a
\* recipient (b1) and a second account (b2) that may be granted roles.
LedgerCallers == {owner, b1, b2}

NextLedger ==
    \/ \E c \in LedgerCallers, a \in {ZERO, ctrl} : setSpendingController(c, a)
    \/ \E c \in LedgerCallers, a \in {ZERO, b1} : whitelistBeneficiary(c, a)
    \/ \E c \in LedgerCallers, a \in {b1, b2} : removeBeneficiary(c, a)
    \/ \E c \in LedgerCallers, r \in {ADMIN_ROLE, MINTER_ROLE} : grantRole(c, r, b2)
    \/ \E c \in LedgerCallers, a \in {ZERO, owner, b1, b2}, v \in Amounts,
          id \in CampaignIds : mintForCampaign(c, a, v, id)
    \/ \E c \in LedgerCallers, a \in {ZERO, b1, b2, m1}, v \in Amounts,
          id \in CampaignIds : distributeFunds(c, a, v, id)
    \/ \E c \in LedgerCallers, a \in Addresses, v \in Amounts : transfer(c, a, v)
    \/ \E c \in {owner, b2}, a \in Addresses \ {ZERO}, v \in Amounts :
          transferFrom(c, b1, a, v)
    \/ \E s \in {ZERO, owner, b2}, v \in {0, 2 * Unit} : approve(b1, s, v)
    \/ \E c \in LedgerCallers, v \in Amounts : burn(c, v)
    \/ \E c \in LedgerCallers : pause(c)
    \/ \E c \in LedgerCallers : unpause(c)

SpecLedger == Init /\ [][NextLedger]_vars
\* Ledger and SpendingController together: the funding of a recipient (b1) and
\* its spending at a merchant (m1).
SpendCallers == {owner, b1}

Next ==
    \/ \E c \in SpendCallers : setSpendingController(c, ctrl)
    \/ \E c \in SpendCallers : whitelistBeneficiary(c, b1)
    \/ \E c \in SpendCallers : grantRole(c, MINTER_ROLE, b1)
    \/ \E c \in SpendCallers, a \in {owner, b1}, id \in CampaignIds :
          mintForCampaign(c, a, 2 * Unit, id)
    \/ \E c \in SpendCallers, v \in {Unit, 2 * Unit}, id \in CampaignIds :
          distributeFunds(c, b1, v, id)
    \/ \E c \in SpendCallers, a \in {b1, m1} : transfer(c, a, Unit)
    \/ \E c \in SpendCallers : burn(c, Unit)
    \/ \E v \in {0, 2 * Unit} : approve(b1, ctrl, v)
    \/ \E c \in SpendCallers, k \in {FOOD, MEDICAL} : registerMerchant(c, m1, k)
    \/ \E c \in SpendCallers : deactivateMerchant(c, m1)
    \/ \E c \in SpendCallers, k \in {FOOD, MEDICAL}, v \in {0, Unit, 3 * Unit} :
          setAllowance(c, b1, k, v)
    \/ \E c \in SpendCallers, v \in {Unit, 3 * Unit} :
          setAllAllowances(c, b1, v, v, 0, 0, 0)
    \/ \E c \in SpendCallers, v \in {0, Unit} : setDailyLimit(c, b1, v)
    \/ \E c \in SpendCallers, v \in Amounts : spend(c, m1, v)
    \/ Tick

Spec == Init /\ [][Next]_vars

\* CampaignManager alone.  Funds and allocations are recorded for campaign 1;
\* the lifecycle calls address every id, also ids never created.
CampaignCallers == {owner, b1}
CampaignInputIds == 1 .. (MaxCampaigns + 1)

NextCampaign ==
    \/ \E c \in CampaignCallers, d \in {<<1, 2>>, <<1, 1>>, <<2, 1>>} :
          createCampaign(c, d[1], d[2])
    \/ \E c \in CampaignCallers, id \in CampaignInputIds : activateCampaign(c, id)
    \/ \E c \in CampaignCallers, id \in CampaignInputIds : pauseCampaign(c, id)
    \/ \E c \in CampaignCallers, id \in CampaignInputIds : completeCampaign(c, id)
    \/ \E c \in CampaignCallers, id \in {1, MaxCampaigns + 1}, v \in {Unit, 2 * Unit} :
          recordFundsRaised(c, id, v)
    \/ \E c \in CampaignCallers, id \in {1, MaxCampaigns + 1}, v \in {0, Unit} :
          addBeneficiaryToCampaign(c, id, b1, v)
    \/ \E c \in CampaignCallers, id \in {1, MaxCampaigns + 1}, v \in Amounts :
          distributeTobeneficiary(c, id, b1, v)

SpecCampaign == Init /\ [][NextCampaign]_vars

\* Spending with the events of each call recorded: one recipient, one
\* merchant, and both pause switches.
NextAudit ==
    \/ setSpendingController(owner, ctrl)
    \/ whitelistBeneficiary(owner, b1)
    \/ grantRole(owner, MINTER_ROLE, b1)
    \/ \E id \in CampaignIds : mintForCampaign(owner, b1, 2 * Unit, id)
    \/ approve(b1, ctrl, 2 * Unit)
    \/ registerMerchant(owner, m1, FOOD)
    \/ \E v \in {Unit, 3 * Unit} : setAllowance(owner, b1, FOOD, v)
    \/ \E v \in {0, Unit} : setDailyLimit(owner, b1, v)
    \/ \E c \in SpendCallers, v \in Amounts : spend(c, m1, v)
    \/ pause(owner)
    \/ unpause(owner)
    \/ ctrlPause(owner)
    \/ ctrlUnpause(owner)
    \/ Tick

SpecAudit == InitAudit /\ [][NextAudit]_vars

\* ------------------------------------------------------------------ claims
HasEvent(events, name) == \E i \in 1 .. Len(events) : events[i].name = name

isPrivileged(account) == hasRole(ADMIN_ROLE, account) \/ hasRole(MINTER_ROLE, account)

\* C1: in every reachable state the sum of all account balances equals the
\* cumulative amount minted minus the cumulative amount burned.
Conservation == totalSupply = totalMinted - totalBurned

\* Funds were minted, part was burned and part reached a merchant by a spend.
ConservationWitness ==
    /\ totalMinted > 0
    /\ totalBurned > 0
    /\ merchants[m1].totalReceived > 0
    /\ balances[m1] > 0

\* The preconditions C2 names for spend(merchant, amount) by `caller`.
ValidSpend(caller, merchant, amount) ==
    /\ isWhitelisted(caller)
    /\ ~isPrivileged(caller)
    /\ allowances[caller][ctrl] >= amount
    /\ spendingController = ctrl
    /\ amount > 0
    /\ merchants[merchant].isActive
    /\ amount <= getRemainingAllowance(caller, merchants[merchant].category)
    /\ amount <= dailyRemaining(caller)
    /\ amount <= balanceOf(caller)
    /\ ~tokenPaused
    /\ ~ctrlPaused

\* C2: a spend by an active whitelisted recipient that holds neither Admin nor
\* Minter on the ledger, has approved the controller for the amount, and
\* meets every listed precondition (positive amount, active merchant, within
\* the category allowance, the daily limit and the balance, nothing paused)
\* succeeds and moves exactly the amount from the recipient to the merchant.
ValidSpendSucceeds ==
    \A c \in SpendCallers, v \in Amounts :
        ValidSpend(c, m1, v) =>
            /\ spendErr(c, m1, v) = "ok"
            /\ transferFromResult(ctrl, c, m1, v).bal =
                   [balances EXCEPT ![c] = @ - v, ![m1] = @ + v]

\* What a spend of `v` by `c` at `m` commits when it applies in full.
SpendApplied(c, m, v) ==
    LET k == merchants[m].category
    IN /\ balances' = [balances EXCEPT ![c] = @ - v, ![m] = @ + v]
       /\ categorySpending' = [categorySpending EXCEPT ![c][k] = @ + v]
       /\ dailySpent' = [dailySpent EXCEPT ![c][now \div SecondsPerDay] = @ + v]
       /\ merchants' = [merchants EXCEPT ![m].totalReceived = @ + v]
       /\ transactionCounter' = transactionCounter + 1
       /\ emitted' # <<>>
       /\ \E i \in 1 .. Len(emitted') :
              emitted'[i] = Ev("SpendingExecuted", transactionCounter + 1)

SpendNoEffect ==
    /\ UNCHANGED <<balances, categorySpending, dailySpent, merchants,
                   transactionCounter>>
    /\ ~HasEvent(emitted', "SpendingExecuted")

\* C3: every spend call either applies in full (balance moved by the amount,
\* categorySpending, dailySpent of today and the merchant's totalReceived
\* each raised by the amount, the transaction counter advanced by one and
\* SpendingExecuted emitted) or changes none of these; and no step raises a
\* spending counter or emits SpendingExecuted without applying in full.
SpendExactlyOnce ==
    [][/\ \A c \in SpendCallers, v \in Amounts :
              spend(c, m1, v) => (SpendApplied(c, m1, v) \/ SpendNoEffect)
       /\ (\/ categorySpending' # categorySpending
           \/ dailySpent' # dailySpent
           \/ emitted' # emitted /\ HasEvent(emitted', "SpendingExecuted"))
              => \E c \in SpendCallers, v \in Amounts \ {0} : SpendApplied(c, m1, v)
      ]_vars

\* The call just committed was a spend, and two units have reached the merchant.
SpendExactlyOnceWitness ==
    /\ HasEvent(emitted, "SpendingExecuted")
    /\ merchants[m1].totalReceived = 2 * Unit
    /\ balances[m1] = 2 * Unit

\* C4: a successful spend at a merchant of category k raises
\* categorySpending[caller][k] by exactly the amount, lowers the remaining
\* allowance by exactly the amount and leaves categorySpending within the
\* category allowance; a spend rejected with InsufficientAllowance leaves
\* categorySpending unchanged.
AllowanceMonotone ==
    [][\A c \in SpendCallers, v \in Amounts :
          LET k == merchants[m1].category
          IN spend(c, m1, v) =>
               /\ spendErr(c, m1, v) = "ok" =>
                     /\ categorySpending'[c][k] = categorySpending[c][k] + v
                     /\ categoryAllowances'[c][k] - categorySpending'[c][k]
                          = categoryAllowances[c][k] - categorySpending[c][k] - v
                     /\ categorySpending'[c][k] <= categoryAllowances'[c][k]
               /\ spendErr(c, m1, v) = "InsufficientAllowance" =>
                     UNCHANGED categorySpending
      ]_vars

\* A recipient has spent part of a category allowance and a further spend of
\* one unit would be rejected for the allowance.
AllowanceMonotoneWitness ==
    \E c \in SpendCallers :
        /\ categorySpending[c][merchants[m1].category] > 0
        /\ spendErr(c, m1, Unit) = "InsufficientAllowance"

\* The condition C5 puts on a transfer from `from` that credits `r`.
GateAllows(from, r) ==
    \/ isPrivileged(r)
    \/ r = spendingController
    \/ isWhitelisted(r) /\ (isPrivileged(from) \/ from = spendingController)

\* C5: a transfer, transferFrom or distributeFunds of a non-zero amount into
\* an account r succeeds only if r holds Admin or Minter, r is the designated
\* controller, or r is an active whitelisted recipient and the sender holds
\* Admin or Minter or is the controller.
WhitelistGating ==
    \A c \in LedgerCallers, r \in Accounts, v \in Amounts \ {0} :
        /\ transferErr(c, r, v) = "ok" => GateAllows(c, r)
        /\ transferFromErr(c, b1, r, v) = "ok" => GateAllows(b1, r)
        /\ distributeFundsErr(c, r, v) = "ok" => GateAllows(c, r)

\* An account that holds neither Admin nor Minter and is not the controller.
isOrdinary(account) == ~isPrivileged(account) /\ account # spendingController

\* C6 as stated: every transfer or transferFrom of a non-zero amount whose
\* source is an ordinary account and whose destination is not the controller
\* is rejected with TransferNotAllowed and leaves every balance unchanged.
DirectTransferNotAllowed ==
    \A c \in LedgerCallers, to \in Addresses, v \in Amounts \ {0} :
        to # spendingController =>
            /\ isOrdinary(c) =>
                  /\ transferErr(c, to, v) = "TransferNotAllowed"
                  /\ _transfer(c, to, v).bal = balances
            /\ isOrdinary(b1) =>
                  /\ transferFromErr(c, b1, to, v) = "TransferNotAllowed"
                  /\ transferFromResult(c, b1, to, v).bal = balances

\* C6: every transfer or transferFrom of a non-zero amount whose source is an
\* ordinary account and whose destination is not the controller is rejected
\* and leaves every balance unchanged; the error is TransferNotAllowed when
\* the ledger is unpaused, the destination is not the zero address and, for
\* transferFrom, the caller's approval covers the amount.
DirectTransferBlocked ==
    \A c \in LedgerCallers, to \in Addresses, v \in Amounts \ {0} :
        to # spendingController =>
            /\ isOrdinary(c) =>
                  /\ transferErr(c, to, v) # "ok"
                  /\ _transfer(c, to, v).bal = balances
                  /\ (~tokenPaused /\ to # ZERO)
                        => transferErr(c, to, v) = "TransferNotAllowed"
            /\ isOrdinary(b1) =>
                  /\ transferFromErr(c, b1, to, v) # "ok"
                  /\ transferFromResult(c, b1, to, v).bal = balances
                  /\ (~tokenPaused /\ to # ZERO /\ allowances[b1][c] >= v)
                        => transferFromErr(c, b1, to, v) = "TransferNotAllowed"

\* An ordinary funded account, with an approval given to another ordinary
\* account, tries to pay a whitelisted third party on an unpaused ledger.
DirectTransferBlockedWitness ==
    /\ isOrdinary(b1) /\ isOrdinary(b2)
    /\ spendingController = ctrl
    /\ ~tokenPaused
    /\ balances[b1] >= Unit
    /\ allowances[b1][b2] >= Unit
    /\ transferErr(b1, owner, Unit) = "TransferNotAllowed"
    /\ transferFromErr(b2, b1, owner, Unit) = "TransferNotAllowed"

\* C7 as stated: a spend rejected with DailyLimitExceeded on day D succeeds
\* with the same amount once the day bucket has advanced.
DailyResetSucceeds ==
    [][\A c \in SpendCallers, v \in Amounts :
          (/\ now' \div SecondsPerDay > now \div SecondsPerDay
           /\ spendErr(c, m1, v) = "DailyLimitExceeded")
              => spendErr(c, m1, v)' = "ok"
      ]_vars

effectiveDailyLimit(c) ==
    IF dailySpendingLimit[c] = 0 THEN defaultDailyLimit ELSE dailySpendingLimit[c]

\* C7: the daily check of a spend in bucket D+1 depends only on
\* dailySpent[caller][D+1]: once the bucket has advanced, a spend that was
\* rejected with DailyLimitExceeded on day D is rejected with that error
\* again only if its amount exceeds the effective daily limit itself, and
\* otherwise it succeeds unless a later check (balance, ledger approval,
\* ledger pause, ledger transfer rule) rejects it.
DailyReset ==
    [][\A c \in SpendCallers, v \in Amounts :
          (/\ now' \div SecondsPerDay > now \div SecondsPerDay
           /\ spendErr(c, m1, v) = "DailyLimitExceeded")
              => /\ (spendErr(c, m1, v)' = "DailyLimitExceeded")
                        <=> (v > effectiveDailyLimit(c))
                 /\ spendErr(c, m1, v)' \in
                        {"ok", "DailyLimitExceeded", "InsufficientBalance",
                         "ERC20InsufficientAllowance", "EnforcedPause",
                         "TransferNotAllowed"}
      ]_vars

\* A recipient spent up to the daily limit on day 0 and spent again on day 1.
DailyResetWitness ==
    \E c \in SpendCallers :
        /\ now \div SecondsPerDay = 1
        /\ dailySpent[c][0] >= effectiveDailyLimit(c)
        /\ dailySpent[c][1] > 0

\* C8: no campaign has distributedAmount above raisedAmount, and a
\* distribution by an administrator from an active campaign that exceeds
\* raisedAmount - distributedAmount is rejected with InsufficientFunds.
CampaignFundBound ==
    /\ \A k \in CampaignKeys :
           campaigns[k].distributedAmount <= campaigns[k].raisedAmount
    /\ \A k \in CampaignKeys, v \in Amounts :
           (/\ campaigns[k].id # 0
            /\ campaigns[k].status = ACTIVE
            /\ v > campaigns[k].raisedAmount - campaigns[k].distributedAmount)
               => distributeTobeneficiaryErr(owner, k, v) = "InsufficientFunds"

\* An active campaign whose raised funds have all been distributed.
CampaignFundBoundWitness ==
    /\ campaigns[1].status = ACTIVE
    /\ campaigns[1].raisedAmount > 0
    /\ campaigns[1].distributedAmount = campaigns[1].raisedAmount
    /\ distributeTobeneficiaryErr(owner, 1, Unit) = "InsufficientFunds"

\* C9: while the ledger is paused every mint, transfer, transferFrom and
\* distributeFunds is rejected and no step changes a balance or
\* campaignFunds; after unpause a mint that the pause rejected, and that
\* names a non-zero eligible receiver, succeeds.
LedgerPauseHalts ==
    [][/\ tokenPaused =>
             /\ UNCHANGED <<balances, campaignFunds>>
             /\ \A c \in LedgerCallers, a \in Addresses, v \in Amounts :
                    /\ mintForCampaignErr(c, a, v) # "ok"
                    /\ transferErr(c, a, v) # "ok"
                    /\ transferFromErr(c, b1, a, v) # "ok"
                    /\ distributeFundsErr(c, a, v) # "ok"
       /\ (tokenPaused /\ ~tokenPaused') =>
             \A c \in LedgerCallers, a \in Accounts, v \in Amounts :
                 (/\ mintForCampaignErr(c, a, v) = "EnforcedPause"
                  /\ (whitelistedBeneficiaries[a] \/ hasRole(ADMIN_ROLE, a)))
                     => mintForCampaignErr(c, a, v)' = "ok"
      ]_vars

\* The ledger is paused while recipients hold funds and an approval is open.
LedgerPauseHaltsWitness ==
    /\ tokenPaused
    /\ balances[b1] > 0
    /\ balances[owner] > 0
    /\ isWhitelisted(b1)
    /\ mintForCampaignErr(owner, b1, Unit) = "EnforcedPause"

\* C10 as stated: distributeFunds called by a Minter moves exactly the amount
\* from the caller to `to` when `to` is an active whitelisted recipient, and
\* otherwise fails with NotWhitelisted leaving every balance unchanged.
DistributeFundsGated ==
    \A c \in LedgerCallers, to \in Accounts, v \in Amounts :
        hasRole(MINTER_ROLE, c) =>
            IF isWhitelisted(to)
            THEN /\ distributeFundsErr(c, to, v) = "ok"
                 /\ _transfer(c, to, v).bal =
                        [balances EXCEPT ![c] = @ - v, ![to] = @ + v]
            ELSE /\ distributeFundsErr(c, to, v) = "NotWhitelisted"
                 /\ _transfer(c, to, v).bal = balances

\* C10: on an unpaused ledger distributeFunds called by a Minter whose
\* balance covers the amount moves exactly the amount from the caller to
\* `to` when `to` is an active whitelisted recipient; when `to` has been
\* deactivated or was never whitelisted it fails with NotWhitelisted
\* (EnforcedPause while the ledger is paused) and no balance changes.
DistributeFundsGatedUnpaused ==
    \A c \in LedgerCallers, to \in Accounts, v \in Amounts :
        hasRole(MINTER_ROLE, c) =>
            IF isWhitelisted(to)
            THEN (~tokenPaused /\ balances[c] >= v) =>
                    /\ distributeFundsErr(c, to, v) = "ok"
                    /\ _transfer(c, to, v).bal =
                           [balances EXCEPT ![c] = @ - v, ![to] = @ + v]
            ELSE distributeFundsErr(c, to, v) =
                    (IF tokenPaused THEN "EnforcedPause" ELSE "NotWhitelisted")

\* A recipient was whitelisted, was paid and was then deactivated, and the
\* Minter still holds funds on an unpaused ledger.
DistributeFundsGatedWitness ==
    /\ ~tokenPaused
    /\ balances[owner] >= Unit
    /\ balances[b1] > 0
    /\ ~isWhitelisted(b1)
    /\ distributeFundsErr(owner, b1, Unit) = "NotWhitelisted"

CampaignDates == {<<1, 2>>, <<1, 1>>, <<2, 1>>}

\* C11: createCampaign by a campaign manager with endDate <= startDate fails
\* with InvalidCampaignDates and leaves campaignCounter and every campaign
\* unchanged; otherwise it assigns id = previous campaignCounter + 1 and
\* stores the campaign as Draft with raised = distributed = beneficiaryCount
\* = 0, so that the ids in use are exactly 1 .. campaignCounter.
CreateCampaignSequential ==
    [][/\ \A c \in CampaignCallers, d \in CampaignDates :
              (createCampaign(c, d[1], d[2]) /\ campHasRole(CAMPAIGN_MANAGER_ROLE, c)) =>
                  IF d[2] <= d[1]
                  THEN /\ createCampaignErr(c, d[1], d[2]) = "InvalidCampaignDates"
                       /\ UNCHANGED <<campaignCounter, campaigns>>
                  ELSE /\ createCampaignErr(c, d[1], d[2]) = "ok"
                       /\ campaignCounter' = campaignCounter + 1
                       /\ campaigns' = [campaigns EXCEPT ![campaignCounter + 1] =
                              [id |-> campaignCounter + 1, status |-> DRAFT,
                               raisedAmount |-> 0, distributedAmount |-> 0,
                               beneficiaryCount |-> 0]]
       /\ \A k \in CampaignKeys :
              campaigns'[k].id = (IF k <= campaignCounter' THEN k ELSE 0)
      ]_vars

\* Two campaigns exist, the second created after the first had moved on.
CreateCampaignSequentialWitness ==
    /\ campaignCounter = 2
    /\ campaigns[1].id = 1 /\ campaigns[2].id = 2
    /\ campaigns[1].raisedAmount > 0
    /\ campaigns[2].status = DRAFT /\ campaigns[2].raisedAmount = 0

\* C12: a mint by a Minter on an unpaused ledger is rejected with
\* NotWhitelisted exactly when the receiver holds neither Admin nor Minter and
\* is not an active whitelisted recipient; in every other case (a receiver
\* holding only the Minter role included) it succeeds and credits the
\* receiver with exactly the amount.
MintEligibility ==
    \A c \in LedgerCallers, to \in Accounts, v \in Amounts :
        (hasRole(MINTER_ROLE, c) /\ ~tokenPaused) =>
            IF ~isPrivileged(to) /\ ~isWhitelisted(to)
            THEN mintForCampaignErr(c, to, v) = "NotWhitelisted"
            ELSE /\ mintForCampaignErr(c, to, v) = "ok"
                 /\ _update(ZERO, to, v).bal = [balances EXCEPT ![to] = @ + v]

\* C13: every spend call that is rejected with InvalidAmount,
\* MerchantNotActive, InsufficientAllowance, DailyLimitExceeded or
\* InsufficientBalance leaves a SpendingRejected event in the event stream
\* once the call has returned, with all other state unchanged.
RejectedSpendRecorded ==
    [][\A c \in SpendCallers, v \in Amounts :
          (/\ spend(c, m1, v)
           /\ spendErr(c, m1, v) \in {"InvalidAmount", "MerchantNotActive",
                                      "InsufficientAllowance", "DailyLimitExceeded",
                                      "InsufficientBalance"})
              => /\ HasEvent(emitted', "SpendingRejected")
                 /\ UNCHANGED <<tokenVars, ctrlVars, campVars>>
      ]_vars

\* C14: for every recipient and category, categorySpending never exceeds
\* categoryAllowances, in every reachable state.
CategorySpendingWithinAllowance ==
    \A a \in Accounts, k \in Categories :
        categorySpending[a][k] <= categoryAllowances[a][k]

\* C15: for every recipient and day bucket, dailySpent never exceeds the
\* recipient's effective daily limit, in every reachable state.
DailySpentWithinLimit ==
    \A a \in Accounts, d \in Days : dailySpent[a][d] <= effectiveDailyLimit(a)

\* The status edges C16 allows.
LifecycleEdges ==
    {<<DRAFT, ACTIVE>>, <<ACTIVE, PAUSED>>, <<PAUSED, ACTIVE>>, <<PAUSED, COMPLETED>>,
     <<DRAFT, CANCELLED>>, <<ACTIVE, CANCELLED>>, <<PAUSED, CANCELLED>>}

\* C16: a campaign's status changes only along Draft -> Active,
\* Active -> Paused, Paused -> Active, Paused -> Completed and
\* {Draft, Active, Paused} -> Cancelled; a Completed or Cancelled campaign
\* never changes status again and no campaign returns to Draft.
CampaignLifecycle ==
    [][\A k \in CampaignKeys :
          campaigns'[k].status # campaigns[k].status =>
              <<campaigns[k].status, campaigns'[k].status>> \in LifecycleEdges
      ]_vars

RECURSIVE Occurrences(_, _)
Occurrences(list, x) ==
    IF list = <<>> THEN 0
    ELSE (IF Head(list) = x THEN 1 ELSE 0) + Occurrences(Tail(list), x)

\* C17: once a recipient has been added to a campaign, with any allocation
\* (0 included), every later addBeneficiaryToCampaign for the same pair is
\* rejected with BeneficiaryAlreadyInCampaign, so the recipient appears at
\* most once in the campaign's recipient list.
OneAllocationPerPair ==
    \A k \in CampaignKeys, r \in Accounts :
        /\ Occurrences(campaignBeneficiaries[k], r) <= 1
        /\ Occurrences(campaignBeneficiaries[k], r) = 1 =>
               addBeneficiaryToCampaignErr(owner, k, r) = "BeneficiaryAlreadyInCampaign"

\* Every privileged command of the three contracts, issued by the deployer
\* and by an account that is granted some ledger roles but never all.
AuthCallers == {owner, b1}

NextAuth ==
    \/ \E r \in {MINTER_ROLE, PAUSER_ROLE} : grantRole(owner, r, b1)
    \/ \E c \in AuthCallers : setSpendingController(c, ctrl)
    \/ \E c \in AuthCallers : whitelistBeneficiary(c, b2)
    \/ \E c \in AuthCallers : removeBeneficiary(c, b2)
    \/ \E c \in AuthCallers, id \in CampaignIds : mintForCampaign(c, owner, 2 * Unit, id)
    \/ \E c \in AuthCallers, id \in CampaignIds : distributeFunds(c, b2, 2 * Unit, id)
    \/ \E c \in AuthCallers : pause(c)
    \/ \E c \in AuthCallers : unpause(c)
    \/ \E c \in AuthCallers : registerMerchant(c, m1, FOOD)
    \/ \E c \in AuthCallers : deactivateMerchant(c, m1)
    \/ \E c \in AuthCallers : setAllowance(c, b2, FOOD, Unit)
    \/ \E c \in AuthCallers : setAllAllowances(c, b2, Unit, Unit, 0, 0, 0)
    \/ \E c \in AuthCallers : setDailyLimit(c, b2, Unit)
    \/ \E c \in AuthCallers : createCampaign(c, 1, 2)
    \/ \E c \in AuthCallers : activateCampaign(c, 1)
    \/ \E c \in AuthCallers : pauseCampaign(c, 1)
    \/ \E c \in AuthCallers : completeCampaign(c, 1)
    \/ \E c \in AuthCallers : recordFundsRaised(c, 1, 2 * Unit)
    \/ \E c \in AuthCallers : addBeneficiaryToCampaign(c, 1, b2, Unit)
    \/ \E c \in AuthCallers : distributeTobeneficiary(c, 1, b2, 2 * Unit)

SpecAuth == Init /\ [][NextAuth]_vars

Unauthorized == "AccessControlUnauthorizedAccount"

\* C18: every privileged command issued by a caller that lacks the role the
\* command requires is rejected (and so commits nothing): on the ledger
\* Admin for whitelist, deactivate and setSpendingController, Minter for mint
\* and distributeFunds, Pauser for pause and unpause; on the controller
\* Merchant Manager for registerMerchant and deactivateMerchant, Admin for
\* the allowance and daily-limit setters; on the campaign manager Campaign
\* Manager for create, activate, pause, complete and addBeneficiary, Admin
\* for recordFundsRaised and distributeTobeneficiary.
Authorization ==
    \A c \in Callers, a \in Accounts, v \in Amounts :
        /\ ~hasRole(ADMIN_ROLE, c) =>
              /\ whitelistBeneficiaryErr(c, a) = Unauthorized
              /\ removeBeneficiaryErr(c, a) = Unauthorized
              /\ setSpendingControllerErr(c, a) = Unauthorized
        /\ ~hasRole(MINTER_ROLE, c) =>
              /\ mintForCampaignErr(c, a, v) = Unauthorized
              /\ distributeFundsErr(c, a, v) = Unauthorized
        /\ ~hasRole(PAUSER_ROLE, c) =>
              /\ pauseErr(c) = Unauthorized
              /\ unpauseErr(c) = Unauthorized
        /\ ~ctrlHasRole(MERCHANT_MANAGER_ROLE, c) =>
              /\ registerMerchantErr(c, a) = Unauthorized
              /\ deactivateMerchantErr(c, a) = Unauthorized
        /\ ~ctrlHasRole(ADMIN_ROLE, c) =>
              /\ setAllowanceErr(c, a) = Unauthorized
              /\ setDailyLimitErr(c) = Unauthorized
        /\ ~campHasRole(CAMPAIGN_MANAGER_ROLE, c) =>
              /\ createCampaignErr(c, 1, 2) = Unauthorized
              /\ \A k \in CampaignInputIds :
                     /\ setStatusErr(c, k) = Unauthorized
                     /\ addBeneficiaryToCampaignErr(c, k, a) = Unauthorized
        /\ ~campHasRole(ADMIN_ROLE, c) =>
              \A k \in CampaignInputIds :
                  /\ recordFundsRaisedErr(c, k) = Unauthorized
                  /\ distributeTobeneficiaryErr(c, k, v) = Unauthorized

\* An account holds the Minter and Pauser roles of the ledger but not Admin
\* while the ledger is paused, funds are out, a merchant is registered and a
\* campaign is active with funds raised: each of its Admin commands would
\* otherwise be valid.
AuthorizationWitness ==
    /\ hasRole(MINTER_ROLE, b1) /\ hasRole(PAUSER_ROLE, b1) /\ ~hasRole(ADMIN_ROLE, b1)
    /\ isWhitelisted(b2) /\ balances[b2] > 0
    /\ merchants[m1].isActive
    /\ campaigns[1].status = ACTIVE /\ campaigns[1].raisedAmount > 0
    /\ removeBeneficiaryErr(b1, b2) = Unauthorized
    /\ deactivateMerchantErr(b1, m1) = Unauthorized
    /\ distributeTobeneficiaryErr(b1, 1, Unit) = Unauthorized
    /\ distributeTobeneficiaryErr(owner, 1, Unit) = "ok"

\* C19: on an unpaused controller a spend that violates several checks is
\* rejected with the error of the first failing one in the order
\* amount = 0 (InvalidAmount), merchant inactive (MerchantNotActive), amount
\* above the remaining category allowance (InsufficientAllowance), amount
\* above the remaining daily budget (DailyLimitExceeded), amount above the
\* caller's balance (InsufficientBalance).
SpendValidationOrder ==
    \A c \in SpendCallers, v \in Amounts :
        LET k == merchants[m1].category
            remaining == IF categoryAllowances[c][k] > categorySpending[c][k]
                         THEN categoryAllowances[c][k] - categorySpending[c][k]
                         ELSE 0
            budget == IF effectiveDailyLimit(c) > dailySpent[c][now \div SecondsPerDay]
                      THEN effectiveDailyLimit(c) - dailySpent[c][now \div SecondsPerDay]
                      ELSE 0
            first == IF v = 0 THEN "InvalidAmount"
                     ELSE IF ~merchants[m1].isActive THEN "MerchantNotActive"
                     ELSE IF v > remaining THEN "InsufficientAllowance"
                     ELSE IF v > budget THEN "DailyLimitExceeded"
                     ELSE IF v > balances[c] THEN "InsufficientBalance"
                     ELSE "none"
        IN ~ctrlPaused =>
              /\ first # "none" => spendErr(c, m1, v) = first
              /\ first = "none" =>
                    spendErr(c, m1, v) \notin
                        {"InvalidAmount", "MerchantNotActive", "InsufficientAllowance",
                         "DailyLimitExceeded", "InsufficientBalance"}

\* A spend at an active merchant exceeds the category allowance, the daily
\* budget and the balance at once, after an earlier spend has used part of
\* both budgets.
SpendValidationOrderWitness ==
    \E c \in SpendCallers :
        /\ merchants[m1].isActive
        /\ categorySpending[c][merchants[m1].category] > 0
        /\ 2 * Unit > getRemainingAllowance(c, merchants[m1].category)
        /\ 2 * Unit > dailyRemaining(c)
        /\ 2 * Unit > balances[c]
        /\ spendErr(c, m1, 2 * Unit) = "InsufficientAllowance"

\* C20: a spend succeeds only if its caller is an active whitelisted
\* recipient at the time of the call.
SpendRequiresWhitelist ==
    \A c \in SpendCallers, v \in Amounts :
        spendErr(c, m1, v) = "ok" => isWhitelisted(c)

\* ------------------------------------------------------ merchant registry
\* m has a record that was switched off: it is in the index and not active.
isDeactivated(m) == Occurrences(merchantList, m) > 0 /\ ~merchants[m].isActive

\* C21 as stated: once m has been deactivated, every spend to m is rejected
\* with MerchantNotActive, whatever its amount.
DeactivatedAlwaysMerchantNotActive ==
    \A c \in SpendCallers, v \in Amounts :
        isDeactivated(m1) => spendErr(c, m1, v) = "MerchantNotActive"

\* C21: a spend succeeds only at an active merchant.  While m's record is not
\* active every spend to m is rejected, with MerchantNotActive when the
\* controller is not paused and the amount is not zero (the two checks that
\* come first), and no spend changes m's totalReceived or ledger balance.
MerchantEligibility ==
    [][ /\ \A c \in SpendCallers, v \in Amounts :
             /\ spendErr(c, m1, v) = "ok" => merchants[m1].isActive
             /\ (~merchants[m1].isActive /\ ~ctrlPaused /\ v > 0)
                   => spendErr(c, m1, v) = "MerchantNotActive"
        /\ ( /\ ~merchants[m1].isActive
             /\ \/ merchants'[m1].totalReceived # merchants[m1].totalReceived
                \/ balances'[m1] # balances[m1] )
              => ~ \E c \in SpendCallers, v \in Amounts : spend(c, m1, v)
      ]_vars

\* m1 has received funds, was deactivated, and a funded spend to it is rejected
\* with MerchantNotActive.
MerchantEligibilityWitness ==
    /\ isDeactivated(m1)
    /\ merchants[m1].totalReceived > 0
    /\ balances[b1] >= Unit
    /\ spendErr(b1, m1, Unit) = "MerchantNotActive"

\* C22: a merchant's totalReceived never decreases.
TotalReceivedNeverDecreases ==
    [][\A m \in Accounts : merchants'[m].totalReceived >= merchants[m].totalReceived]_vars

\* C29: the merchant index holds each address at most once.
MerchantListUnique ==
    \A m \in Accounts : Occurrences(merchantList, m) <= 1

\* ------------------------------------------------------- transaction ids
\* The ids carried by the SpendingExecuted and AuditLog events of a call.
EventIds(events) ==
    {events[i].id : i \in {j \in 1 .. Len(events) : events[j].name \in {"SpendingExecuted", "AuditLog"}}}

\* C23 as stated, for the events of one call: no two id-carrying events have
\* the same id.
EventIdsDistinct ==
    \A i, j \in 1 .. Len(emitted) :
        ( /\ i # j
          /\ emitted[i].name \in {"SpendingExecuted", "AuditLog"}
          /\ emitted[j].name \in {"SpendingExecuted", "AuditLog"} )
            => emitted[i].id # emitted[j].id

\* C23: the transaction counter never decreases; every successful spend emits
\* SpendingExecuted with the id counter + 1, which is greater than every id
\* handed out before (to a spend or to a registerMerchant audit log) and
\* becomes the new counter; every call that draws an id draws exactly this one
\* and stamps all its events with it, so no two calls get the same id (the
\* SpendingExecuted and the AuditLog event of one spend carry the same id); a
\* rejected spend leaves the counter alone.
TransactionIdsFresh ==
    [][ /\ transactionCounter' >= transactionCounter
        /\ \A c \in SpendCallers, v \in Amounts :
              spend(c, m1, v) =>
                 IF spendErr(c, m1, v) = "ok"
                 THEN /\ Ev("SpendingExecuted", transactionCounter + 1) \in
                             {emitted'[i] : i \in 1 .. Len(emitted')}
                      /\ transactionCounter' = transactionCounter + 1
                 ELSE /\ transactionCounter' = transactionCounter
                      /\ emitted' = <<>>
        /\ (transactionCounter' # transactionCounter \/ emitted' # emitted) =>
              /\ \A id \in EventIds(emitted') :
                    id > transactionCounter /\ id = transactionCounter'
              /\ transactionCounter' # transactionCounter => EventIds(emitted') # {}
      ]_vars

\* The third id has just been given to a spend, after a registration and
\* another transaction drew the first two.
TransactionIdsFreshWitness ==
    /\ Ev("SpendingExecuted", 3) \in {emitted[i] : i \in 1 .. Len(emitted)}
    /\ transactionCounter = 3
    /\ Len(merchantList) > 0

\* ------------------------------------------------------- reentrancy guard
\* spend at the grain of its guard.  Between two transactions the guard is
\* NOT_ENTERED and any operation may run; while a spend is inside the ledger
\* transfer the only calls that can arrive are nested ones, and the only way
\* on is for the transfer to return.
NextReentrant ==
    \/ reentrancyStatus = NOT_ENTERED /\ setSpendingController(owner, ctrl)
    \/ reentrancyStatus = NOT_ENTERED /\ whitelistBeneficiary(owner, b1)
    \/ reentrancyStatus = NOT_ENTERED /\ grantRole(owner, MINTER_ROLE, b1)
    \/ reentrancyStatus = NOT_ENTERED /\ \E id \in CampaignIds : mintForCampaign(owner, b1, 2 * Unit, id)
    \/ reentrancyStatus = NOT_ENTERED /\ approve(b1, ctrl, 2 * Unit)
    \/ reentrancyStatus = NOT_ENTERED /\ registerMerchant(owner, m1, FOOD)
    \/ reentrancyStatus = NOT_ENTERED /\ setAllowance(owner, b1, FOOD, 3 * Unit)
    \/ reentrancyStatus = NOT_ENTERED /\ ctrlPause(owner)
    \/ reentrancyStatus = NOT_ENTERED /\ ctrlUnpause(owner)
    \/ reentrancyStatus = NOT_ENTERED /\ Tick
    \/ \E c \in SpendCallers, v \in Amounts : spend(c, m1, v)
    \/ \E c \in SpendCallers, v \in Amounts : spendEnter(c, m1, v)
    \/ spendComplete

SpecReentrant == InitAudit /\ [][NextReentrant]_vars

\* C24: while a spend is between its checks and its counter updates (the guard
\* is ENTERED), every spend call by any caller is rejected by the guard and no
\* step changes ledger or controller state or emits an event, except the
\* return of the ledger transfer, which commits exactly the pending spend and
\* releases the lock; a spend that runs to its end, accepted or rejected,
\* leaves the lock released; and the lock is only ever taken by a spend whose
\* checks have passed.
SpendMutualExclusion ==
    [][ /\ reentrancyStatus = ENTERED =>
             /\ pending # NoPending
             /\ \A c \in SpendCallers, v \in Amounts :
                   spendErr(c, m1, v) = "ReentrancyGuardReentrantCall"
             /\ \/ /\ reentrancyStatus' = NOT_ENTERED
                   /\ pending' = NoPending
                   /\ SpendApplied(pending.caller, pending.merchant, pending.amount)
                \/ /\ UNCHANGED <<tokenVars, ctrlVars, campVars, guardVars>>
                   /\ emitted' = <<>>
        /\ reentrancyStatus = NOT_ENTERED =>
             /\ pending = NoPending
             /\ \/ reentrancyStatus' = NOT_ENTERED
                \/ /\ pending' # NoPending
                   /\ spendErr(pending'.caller, pending'.merchant, pending'.amount) = "ok"
                   /\ UNCHANGED <<tokenVars, ctrlVars, campVars>>
             /\ \A c \in SpendCallers, v \in Amounts :
                   spend(c, m1, v) => reentrancyStatus' = NOT_ENTERED
      ]_vars

\* A second spend of b1 is inside the ledger transfer, after its first one has
\* completed and released the lock, and a nested spend has just been rejected.
SpendMutualExclusionWitness ==
    /\ reentrancyStatus = ENTERED
    /\ pending = [caller |-> b1, merchant |-> m1, amount |-> Unit]
    /\ merchants[m1].totalReceived = Unit
    /\ emitted = <<>>
    /\ spendErr(b1, m1, Unit) = "ReentrancyGuardReentrantCall"

\* ------------------------------------------------------------ cancellation
\* C25: every existing campaign whose status is Draft, Active or Paused can be
\* moved to Cancelled by a command of the campaign manager.
CancellationReachable ==
    \A k \in CampaignKeys :
        (campaigns[k].id # 0 /\ campaigns[k].status \in {DRAFT, ACTIVE, PAUSED})
            => ENABLED (NextCampaign /\ campaigns'[k].status = CANCELLED)

\* ---------------------------------------------------- zero-value transfers
\* C26: on an unpaused ledger a transfer of 0 succeeds and changes no balance
\* for every sender and receiver.
ZeroTransferIsNoOp ==
    \A from \in LedgerCallers, to \in Accounts :
        ~tokenPaused =>
            /\ transferErr(from, to, 0) = "ok"
            /\ _transfer(from, to, 0).bal = balances

\* ------------------------------------------------------ audit completeness
\* C27: no step changes ledger, controller or campaign state without
\* emitting at least one event.
AuditComplete ==
    [][<<tokenVars, ctrlVars, campVars>>' # <<tokenVars, ctrlVars, campVars>>
          => emitted' # <<>>]_vars

\* ------------------------------------------------------------ daily limit
\* C28: a stored daily limit of 0 (never set, or set to 0) stands for the
\* default limit and any other stored value v for v itself: against that
\* limit L getBeneficiaryStatus reports the remaining budget and spend
\* rejects with DailyLimitExceeded exactly the amounts that would take
\* today's total above L; setDailyLimit(r, v) stores v, so afterwards L is
\* the default if v = 0 and v otherwise.
DailyLimitZeroMeansDefault ==
    [][ /\ \A r \in SpendCallers :
             LET L == IF dailySpendingLimit[r] = 0 THEN defaultDailyLimit
                      ELSE dailySpendingLimit[r]
                 spentToday == dailySpent[r][now \div SecondsPerDay]
             IN /\ dailyRemaining(r) = IF L > spentToday THEN L - spentToday ELSE 0
                /\ \A v \in Amounts :
                      /\ spendErr(r, m1, v) = "DailyLimitExceeded" => spentToday + v > L
                      /\ spendErr(r, m1, v) \in {"ok", "InsufficientBalance",
                                                 "ERC20InsufficientAllowance",
                                                 "TransferNotAllowed"}
                            => spentToday + v <= L
        /\ \A v \in {0, Unit} :
              (setDailyLimit(owner, b1, v) /\ dailySpendingLimit'[b1] # dailySpendingLimit[b1]) =>
                  /\ dailySpendingLimit'[b1] = v
                  /\ dailyRemaining(b1)' =
                        LET L == IF v = 0 THEN defaultDailyLimit ELSE v
                            spentToday == dailySpent[b1][now \div SecondsPerDay]
                        IN IF L > spentToday THEN L - spentToday ELSE 0
      ]_vars

\* b1 has no stored limit and has spent the whole default budget today; one
\* more unit is rejected by the daily check.
DailyLimitZeroMeansDefaultWitness ==
    /\ dailySpendingLimit[b1] = 0
    /\ dailySpent[b1][now \div SecondsPerDay] = defaultDailyLimit
    /\ spendErr(b1, m1, Unit) = "DailyLimitExceeded"

\* ------------------------------------------------------------ two pauses
\* C30: while the ledger or the controller is paused no spend succeeds and a
\* spend call changes no balance, categorySpending, dailySpent, merchant
\* record or transaction counter; and no step that changes one pause flag
\* changes the other.
EitherPauseHaltsSpending ==
    [][ /\ (tokenPaused \/ ctrlPaused) =>
             /\ \A c \in SpendCallers, v \in Amounts : spendErr(c, m1, v) # "ok"
             /\ (\E c \in SpendCallers, v \in Amounts : spend(c, m1, v)) =>
                   UNCHANGED <<balances, categorySpending, dailySpent, merchants,
                               transactionCounter>>
        /\ tokenPaused' # tokenPaused => ctrlPaused' = ctrlPaused
        /\ ctrlPaused' # ctrlPaused => tokenPaused' = tokenPaused
      ]_vars

\* Only the ledger is paused, and a spend that passes every check of the
\* running controller is stopped by the ledger's pause.
EitherPauseHaltsSpendingWitness ==
    /\ tokenPaused
    /\ ~ctrlPaused
    /\ merchants[m1].isActive
    /\ balances[b1] >= Unit
    /\ spendErr(b1, m1, Unit) = "EnforcedPause"
====
